---- MODULE Spec2Model ----
(***************************************************************************)
(* Model of the tcd ingestion pipeline (package main): the orchestrator in *)
(* main(), the four worker stages launched by LaunchWorkerPool, the        *)
(* bounded channels between them and the helpers the stages call           *)
(* (screenProducts, removeProductByProductNumber, getDuplicateKey).        *)
(***************************************************************************)
EXTENDS Integers, Sequences, FiniteSets, TLC

(***************************************************************************)
(* Bounds                                                                  *)
(***************************************************************************)
\* number of sets FetchSetsByProductLine returned, full pipeline runs
NumSets == 2
\* number of sets in the runs that fill the feedback cycle of a pool of one
\* worker per stage: 3 + 3 buffered, 3 held by blocked workers
CycleSets == 9
\* the store answers a set at most this many times with a unique violation
MaxResubmits == 2
\* longest argument list handed to the pure helpers
MaxLen == 3
\* the workers per stage of the runs whose pool is already launched
PoolSize == 1

(***************************************************************************)
(* Pipeline state                                                          *)
(***************************************************************************)
VARIABLES
  cfg,          \* what the run is given: the sets, the source's answers and the
                \* store's answers by write attempts already repaired for the set
  pc,           \* position of main()
  next,         \* index of the next set the seeding loop sends
  dataCtxChan,  \* wpConf.dataCtxChan
  jobsChan,     \* wpConf.jobsChan
  jobStatChan,  \* wpConf.jobStatChan
  imgInfoChan,  \* wpConf.imgInfoChan
  closed,       \* which channels main() has closed
  closeLog,     \* the channels in the order main() closed them
  dw,           \* data workers: position and the job being sent
  jw,           \* job workers: position and the status being sent
  sw,           \* status workers: position, the status held, the repair made
  iw,           \* image workers: position
  wg,           \* the four wait-group counters
  halt,         \* "" while the process runs, else the panic or log.Fatal that ended it
  sent,         \* messages sent so far, per channel
  recv,         \* messages received so far, per channel
  repairLog,    \* per set id, the repairs re-submitted so far
  lastRepair,   \* the repair behind the latest re-submission
  productLine,  \* main()'s productLine
  sets,         \* main()'s sets slice
  store,        \* rows of the product_lines, sets and products tables, and
                \* the next value of each table's serial column
  hist,         \* counts of what the stages have done so far
  files,        \* the image directory: file name -> contents
  arg,          \* argument of the helper under test
  res           \* results of the helper under test

(***************************************************************************)
(* Sizing done by main()                                                   *)
(***************************************************************************)
\* maxProcs := runtime.GOMAXPROCS(0) / 3, the pool size
maxProcs == cfg.gomaxprocs \div 3

\* make(chan ..., maxProcs*10) and make(chan ..., maxProcs*3)
DataCtxChanCap == maxProcs * 10
JobsChanCap == maxProcs * 3
JobStatChanCap == maxProcs * 3
ImgInfoChanCap == maxProcs * 3

\* the goroutines LaunchWorkerPool has started so far
DataWorkers == DOMAIN dw
JobWorkers == DOMAIN jw
StatusWorkers == DOMAIN sw
ImageWorkers == DOMAIN iw

UniqueViolationError == "23505"

(***************************************************************************)
(* Products                                                                *)
(***************************************************************************)
\* datastore.Product, the fields the pipeline reads or writes
Product(number, id) ==
  [ProductNumber |-> number, ProductId |-> id, ProductName |-> ToString(id),
   SetName |-> "", SetId |-> 0, ProductLineId |-> 0]

\* the zero value of datastore.Product, what make([]Product, n) is filled with
ZeroProduct ==
  [ProductNumber |-> "", ProductId |-> 0, ProductName |-> "", SetName |-> "",
   SetId |-> 0, ProductLineId |-> 0]

\* removeProductWithoutNumber
removeProductWithoutNumber(products) ==
  SelectSeq(products, LAMBDA p : p.ProductNumber # "")

RECURSIVE dedupFrom(_, _, _)
\* the loop of removeDuplicateProducts from index i on, seen = keys of the map
dedupFrom(products, i, seen) ==
  IF i > Len(products) THEN <<>>
  ELSE IF products[i].ProductNumber \in seen
       THEN dedupFrom(products, i + 1, seen)
       ELSE <<products[i]>> \o
            dedupFrom(products, i + 1, seen \cup {products[i].ProductNumber})

RECURSIVE dedupToggleFrom(_, _, _)
\* removeDuplicateProducts with the key forgotten again when a duplicate is dropped
dedupToggleFrom(products, i, seen) ==
  IF i > Len(products) THEN <<>>
  ELSE IF products[i].ProductNumber \in seen
       THEN dedupToggleFrom(products, i + 1, seen \ {products[i].ProductNumber})
       ELSE <<products[i]>> \o
            dedupToggleFrom(products, i + 1, seen \cup {products[i].ProductNumber})

\* removeDuplicateProducts forgetting a key when it drops a duplicate
removeDuplicateProductsToggle(products) == dedupToggleFrom(products, 1, {})

\* removeDuplicateProducts keeping the last product of a key instead of the first
removeDuplicateProductsLast(products) ==
  LET idx == {i \in 1..Len(products) :
                \A j \in (i + 1)..Len(products) :
                   products[j].ProductNumber # products[i].ProductNumber}
      n == Cardinality(idx)
  IN  [k \in 1..n |->
         products[CHOOSE i \in idx : Cardinality({j \in idx : j <= i}) = k]]

\* removeDuplicateProducts
removeDuplicateProducts(products) == dedupFrom(products, 1, {})

\* screenProducts
screenProducts(products) ==
  removeDuplicateProducts(removeProductWithoutNumber(products))

\* assocProductsWithSetAndProductLine with the two identifiers exchanged
assocProductsExchanged(products, setId, productLineId) ==
  [i \in 1..Len(products) |->
     [products[i] EXCEPT !.SetId = productLineId, !.ProductLineId = setId]]

\* assocProductsWithSetAndProductLine
assocProductsWithSetAndProductLine(products, setId, productLineId) ==
  [i \in 1..Len(products) |->
     [products[i] EXCEPT !.SetId = setId, !.ProductLineId = productLineId]]

\* removeProductByProductNumber panics in make() when the list is empty
removeProductByProductNumberPanics(products) == Len(products) - 1 < 0

\* removeProductByProductNumber: make([]Product, len-1) followed by appends
removeProductByProductNumber(products, number) ==
  [i \in 1..(Len(products) - 1) |-> ZeroProduct] \o
  SelectSeq(products, LAMBDA p : p.ProductNumber # number)

(***************************************************************************)
(* Store errors and getDuplicateKey                                        *)
(***************************************************************************)
\* the error AddSetData returns: nil, a *pgconn.PgError, or any other error
NoErr == [kind |-> "nil", Code |-> "", Detail |-> <<>>]
PgError(code, detail) == [kind |-> "pg", Code |-> code, Detail |-> detail]
OtherErr == [kind |-> "other", Code |-> "", Detail |-> <<>>]

\* PgError.Detail texts, as token sequences with ( ) , as tokens of their own
EmptyDetail == <<>>
KeyDetail ==
  <<"Key ", "(", "product_number", ",", " rarity_name", ",", " set_id", ")",
    "=", "(", "007", ",", " Common", ",", " 3", ")", " already exists">>

\* regexp `\((.*?)\)`.FindStringSubmatch: leftmost "(", nearest ")" after it
FindStringSubmatch(detail) ==
  LET opens == {i \in 1..Len(detail) :
                  /\ detail[i] = "("
                  /\ \E j \in (i + 1)..Len(detail) : detail[j] = ")"}
  IN  IF opens = {} THEN <<>>
      ELSE LET i == CHOOSE a \in opens : \A b \in opens : a <= b
               j == CHOOSE a \in (i + 1)..Len(detail) :
                      /\ detail[a] = ")"
                      /\ \A b \in (i + 1)..(a - 1) : detail[b] # ")"
           IN  <<SubSeq(detail, i, j), SubSeq(detail, i + 1, j - 1)>>

\* strings.Split(s, ",")[0] on a token sequence
SplitFirst(tokens) ==
  IF tokens = <<>> \/ tokens[1] = "," THEN "" ELSE tokens[1]

\* getDuplicateKey: rs[3] is the fourth element of rs
getDuplicateKey(errDetail) ==
  LET rs == FindStringSubmatch(errDetail)
  IN  IF Len(rs) > 1
      THEN IF Len(rs) < 4
           THEN [panic |-> TRUE, number |-> ""]
           ELSE [panic |-> FALSE, number |-> SplitFirst(rs[4])]
      ELSE [panic |-> FALSE, number |-> ""]

(***************************************************************************)
(* datastore.PostgresDataStore: the tables and the calls main() and the    *)
(* job workers make                                                        *)
(***************************************************************************)
\* datastore.Product_Line and datastore.Set as tcapi returned them: Id is 0
SourceProductLines ==
  { [Id |-> 0, Name |-> "YuGiOh", UrlName |-> "yugioh"],
    [Id |-> 0, Name |-> "magic", UrlName |-> "magic"] }

\* the zero value of datastore.Product_Line
ZeroProductLine == [Id |-> 0, Name |-> "", UrlName |-> ""]

SetName(k) == ToString(k)

SourceSet(k) == [Id |-> 0, ProductLineId |-> 0, Name |-> SetName(k), Count |-> MaxLen]

\* associateSetsWithProductLine
associateSetsWithProductLine(list, productLineId) ==
  [i \in 1..Len(list) |-> [list[i] EXCEPT !.ProductLineId = productLineId]]

\* no rows, and the serial columns at their first value
EmptyStore ==
  [productLines |-> {}, sets |-> {}, products |-> {}, plSeq |-> 1, setSeq |-> 1]

ProductLineIds(st) == {r.Id : r \in st.productLines}
SetIds(st) == {r.Id : r \in st.sets}

ForeignKeyViolation == "23503"
SerializationFailure == "40001"

\* PgError.Detail of a unique violation on sets.set_name
SetNameDetail(name) ==
  <<"Key ", "(", "set_name", ")", "=", "(", name, ")", " already exists.">>

\* PgError.Detail of a unique violation on the primary key of products
ProductKeyDetail(number, setId) ==
  <<"Key ", "(", "product_number", ",", " rarity_name", ",", " set_id", ")",
    "=", "(", number, ",", " Common", ",", ToString(setId), ")", " already exists.">>

\* the server leaves the detail out when the role may not read the columns
Shown(detail, shown) == IF shown THEN detail ELSE EmptyDetail

\* AddProductLine: INSERT INTO product_lines ... RETURNING *, scanned into pl
AddProductLine(st, pl) ==
  IF \E r \in st.productLines : r.Name = pl.Name \/ r.UrlName = pl.UrlName
  THEN [store |-> [st EXCEPT !.plSeq = @ + 1], productLine |-> pl,
        err |-> PgError(UniqueViolationError, EmptyDetail)]
  ELSE LET row == [pl EXCEPT !.Id = st.plSeq]
       IN  [store |-> [st EXCEPT !.productLines = @ \cup {row}, !.plSeq = @ + 1],
            productLine |-> row, err |-> NoErr]

\* GetProductLineByName: SELECT ... WHERE product_line_name=$1, one row scanned
GetProductLineByName(st, name) ==
  LET rows == {r \in st.productLines : r.Name = name}
  IN  IF rows = {}
      THEN [productLine |-> ZeroProductLine, err |-> OtherErr]
      ELSE [productLine |-> CHOOSE r \in rows : TRUE, err |-> NoErr]

\* the INSERT INTO sets of row s fails: unique set_name, or the foreign key
SetInsertFails(st, s) ==
  \/ \E r \in st.sets : r.Name = s.Name
  \/ s.ProductLineId \notin ProductLineIds(st)

\* AddSets: one transaction, one INSERT ... RETURNING * per set, each row
\* scanned into list[i]; after the first failing INSERT every later one
\* fails too, the function returns a plain error and the deferred Rollback
\* undoes the rows but not the serial values drawn
AddSets(st, list) ==
  LET failing == {i \in 1..Len(list) : SetInsertFails(st, list[i])}
      first == IF failing = {} THEN Len(list) + 1
               ELSE CHOOSE i \in failing : \A j \in failing : i <= j
      scanned == [i \in 1..Len(list) |->
                    IF i < first THEN [list[i] EXCEPT !.Id = st.setSeq + i - 1]
                    ELSE list[i]]
      rows == {[Id |-> scanned[i].Id, Name |-> scanned[i].Name,
                ProductLineId |-> scanned[i].ProductLineId] : i \in 1..Len(list)}
  IN  IF failing = {}
      THEN [store |-> [st EXCEPT !.sets = @ \cup rows, !.setSeq = @ + Len(list)],
            sets |-> scanned, err |-> NoErr]
      ELSE [store |-> [st EXCEPT !.setSeq = @ + first],
            sets |-> scanned, err |-> OtherErr]

\* the row INSERT INTO products stores for p
ProductRow(p) ==
  [ProductNumber |-> p.ProductNumber, ProductName |-> p.ProductName,
   SetName |-> p.SetName, SetId |-> p.SetId, ProductLineId |-> p.ProductLineId]

\* the error of the INSERT INTO products of products[i] inside AddSetData,
\* st being the tables with the set row of this transaction inserted
ProductInsertErr(st, products, i, shown) ==
  LET p == products[i]
      earlier == {ProductRow(products[j]) : j \in 1..(i - 1)}
  IN  IF \E r \in st.products \cup earlier :
           r.ProductNumber = p.ProductNumber /\ r.SetId = p.SetId
      THEN PgError(UniqueViolationError,
                   Shown(ProductKeyDetail(p.ProductNumber, p.SetId), shown))
      ELSE IF p.SetId \notin SetIds(st) \/ p.ProductLineId \notin ProductLineIds(st)
           THEN PgError(ForeignKeyViolation, EmptyDetail)
           ELSE NoErr

\* AddSetData without the Rollback: a failing product insert leaves the set
\* row and the products inserted before it
AddSetDataNoRollback(st, set, products, shown) ==
  LET drawn == [st EXCEPT !.setSeq = @ + 1]
      row == [Id |-> st.setSeq, Name |-> set.Name, ProductLineId |-> set.ProductLineId]
      withSet == [drawn EXCEPT !.sets = @ \cup {row}]
      failing == {i \in 1..Len(products) :
                    ProductInsertErr(withSet, products, i, shown) # NoErr}
      first == IF failing = {} THEN Len(products) + 1
               ELSE CHOOSE i \in failing : \A j \in failing : i <= j
      done == [withSet EXCEPT !.products =
                 @ \cup {ProductRow(products[i]) : i \in 1..(first - 1)}]
  IN  IF \E r \in st.sets : r.Name = set.Name
      THEN [store |-> drawn,
            err |-> PgError(UniqueViolationError, Shown(SetNameDetail(set.Name), shown))]
      ELSE IF set.ProductLineId \notin ProductLineIds(st)
           THEN [store |-> drawn, err |-> PgError(ForeignKeyViolation, EmptyDetail)]
           ELSE IF failing # {}
                THEN [store |-> done,
                      err |-> ProductInsertErr(withSet, products, first, shown)]
                ELSE [store |-> done, err |-> NoErr]

\* AddSetData deleting the row of the same set name it conflicts with
AddSetDataDeleting(st, set, products, shown) ==
  [store |-> [st EXCEPT !.setSeq = @ + 1,
                        !.sets = {r \in @ : r.Name # set.Name}],
   err |-> IF \E r \in st.sets : r.Name = set.Name
           THEN PgError(UniqueViolationError, Shown(SetNameDetail(set.Name), shown))
           ELSE PgError(ForeignKeyViolation, EmptyDetail)]

\* AddSetData: one transaction inserting the set row and then the products,
\* returning the first error wrapped; the deferred Rollback undoes the rows
AddSetData(st, set, products, shown) ==
  LET drawn == [st EXCEPT !.setSeq = @ + 1]
      row == [Id |-> st.setSeq, Name |-> set.Name, ProductLineId |-> set.ProductLineId]
      withSet == [drawn EXCEPT !.sets = @ \cup {row}]
      failing == {i \in 1..Len(products) :
                    ProductInsertErr(withSet, products, i, shown) # NoErr}
  IN  IF \E r \in st.sets : r.Name = set.Name
      THEN [store |-> drawn,
            err |-> PgError(UniqueViolationError, Shown(SetNameDetail(set.Name), shown))]
      ELSE IF set.ProductLineId \notin ProductLineIds(st)
           THEN [store |-> drawn, err |-> PgError(ForeignKeyViolation, EmptyDetail)]
           ELSE IF failing # {}
                THEN [store |-> drawn,
                      err |-> ProductInsertErr(withSet, products,
                                CHOOSE i \in failing : \A j \in failing : i <= j, shown)]
                ELSE [store |-> [withSet EXCEPT !.products =
                                   @ \cup {ProductRow(products[i]) : i \in 1..Len(products)}],
                      err |-> NoErr]

vars == <<cfg, pc, next, dataCtxChan, jobsChan, jobStatChan, imgInfoChan, closed,
          closeLog, dw, jw, sw, iw, wg, halt, sent, recv, repairLog, lastRepair,
          productLine, sets, store, hist, files, arg, res>>

pipeVars == <<cfg, pc, next, dataCtxChan, jobsChan, jobStatChan, imgInfoChan, closed,
              closeLog, dw, jw, sw, iw, wg, halt, sent, recv, repairLog, lastRepair,
              productLine, sets, store, hist, files>>

\* identifier AddProductLine assigned to the product line
ProductLineId == 1

\* datastore.Set number k of the sets slice, identifiers as AddSets scanned them
SetOf(k) == [SourceSet(k) EXCEPT !.Id = k, !.ProductLineId = ProductLineId]

\* the tables after AddProductLine and AddSets succeeded on an empty store
\* for the sets numbered ks[1], ks[2], ...
StoreAfterRun(pl, ks) ==
  AddSets(AddProductLine(EmptyStore, pl).store,
          associateSetsWithProductLine([i \in 1..Len(ks) |-> SourceSet(ks[i])],
                                       ProductLineId)).store

StoreAfterSetup(pl, n) == StoreAfterRun(pl, [k \in 1..n |-> k])

\* NewJob
NewJob(pl, set, products) ==
  [productLine |-> pl, set |-> set, productList |-> products]

NoJob == NewJob(0, [Id |-> 0, ProductLineId |-> 0, Name |-> "", Count |-> 0], <<>>)
NoStatus == [success |-> FALSE, err |-> NoErr, worker |-> 0, job |-> NoJob]
NoRepair == [done |-> FALSE, set |-> "", key |-> "", before |-> <<>>, after |-> <<>>]

\* A panic in any goroutine, like log.Fatal, ends the whole process: halt
\* records which one and no goroutine takes a step afterwards.
PanicSendClosed == "panic: send on closed channel"
PanicIndex == "panic: index out of range"
PanicMakeLen == "panic: makeslice: len out of range"
FatalFetch == "log.Fatal: error fetching product line data"
FatalAddProductLine == "log.Fatal: error adding product line"
FatalAddSets == "log.Fatal: error adding sets"

\* answers of tcapi.FetchProductsInParts: a product list, or log.Fatal inside it
Fetched(products) == [ok |-> TRUE, products |-> products]
FetchFailed == [ok |-> FALSE, products |-> <<>>]

SourceLists ==
  { <<>>,
    <<Product("007", 1)>>,
    <<Product("007", 1), Product("001", 2)>>,
    <<Product("", 3)>>,
    <<Product("007", 1), Product("", 3), Product("007", 4)>> }

StoreErrs ==
  { NoErr,
    PgError(UniqueViolationError, EmptyDetail),
    PgError(UniqueViolationError, KeyDetail),
    PgError("23503", EmptyDetail),
    OtherErr }

IdleWorkers(W) == [w \in W |-> [pc |-> "recv"]]

\* an empty image directory
NoFiles == [f \in {} |-> <<>>]

\* the image stage's surroundings: which rows GetProductsBySetName finds
\* ("all" those AddSetData was given, all but the last, or an error), the
\* source ids whose image cannot be fetched, the files that cannot be written
NoImageFaults == [lookup |-> "all", badImages |-> {}, badFiles |-> {}]

NoHist == [fetchedSome |-> 0, fetchedNone |-> 0, dataSent |-> 0, addSetData |-> 0]

\* per set: the jobs a data worker sent, the AddSetData calls made, the
\* outcomes a status worker received, the AddSetData calls that succeeded
\* and the product lists sent to the image workers
NoSetHist(names) ==
  [s \in names |-> [sent |-> 0, attempts |-> 0, inspected |-> 0,
                    succeeded |-> 0, forwarded |-> 0]]

\* the channels main() made and the workers LaunchWorkerPool started
InitWorkerPool(c) ==
  /\ cfg = c
  /\ next = 1
  /\ dataCtxChan = <<>>
  /\ jobsChan = <<>>
  /\ jobStatChan = <<>>
  /\ imgInfoChan = <<>>
  /\ closed = [dc |-> FALSE, jobs |-> FALSE, stat |-> FALSE, img |-> FALSE]
  /\ closeLog = <<>>
  /\ dw = [w \in 1..(c.gomaxprocs \div 3) |-> [pc |-> "recv", job |-> NoJob]]
  /\ jw = [w \in 1..(c.gomaxprocs \div 3) |->
             [pc |-> "recv", job |-> NoJob, err |-> NoErr, status |-> NoStatus]]
  /\ sw = [w \in 1..(c.gomaxprocs \div 3) |->
             [pc |-> "recv", status |-> NoStatus, repair |-> NoRepair]]
  /\ iw = IdleWorkers(1..((c.gomaxprocs \div 3) + 2))
  /\ wg = [data |-> Cardinality(DataWorkers), job |-> Cardinality(JobWorkers),
           status |-> Cardinality(StatusWorkers), image |-> Cardinality(ImageWorkers)]
  /\ halt = ""
  /\ sent = [dc |-> 0, jobs |-> 0, stat |-> 0, img |-> 0]
  /\ recv = [dc |-> 0, jobs |-> 0, stat |-> 0, img |-> 0]
  /\ repairLog = [s \in {SetName(k) : k \in 1..c.nSets} |-> <<>>]
  /\ lastRepair = NoRepair
  /\ files = NoFiles
  /\ hist = NoHist @@ [bySet |-> NoSetHist({SetName(k) : k \in 1..c.nSets})]

\* the state main() is in after LaunchWorkerPool returned, AddProductLine and
\* AddSets having succeeded on an empty store
InitPipe(c) ==
  /\ InitWorkerPool(c)
  /\ pc = "seed"
  /\ productLine = [c.productLine EXCEPT !.Id = ProductLineId]
  /\ sets = [k \in 1..c.nSets |-> SetOf(k)]
  /\ store = StoreAfterSetup(c.productLine, c.nSets)

\* a run against any implementation of UserDataStore: AddSetData answers
\* with one of errs[k], k the repairs already re-submitted for the set
AnyStoreRun(nSets, fetch, errs) ==
  [nSets |-> nSets, fetch |-> fetch, errs |-> errs, pg |-> FALSE, detail |-> TRUE,
   faults |-> {}, productLine |-> [Id |-> 0, Name |-> "YuGiOh", UrlName |-> "yugioh"],
   store |-> EmptyStore, images |-> NoImageFaults, gomaxprocs |-> 3 * PoolSize]

IsUniqueViolation(err) == err.kind = "pg" /\ err.Code = UniqueViolationError

\* the store may answer anything, but a unique violation to at most
\* MaxResubmits write attempts for the same set
AnyAnswer ==
  [k \in 0..MaxResubmits |->
     IF k < MaxResubmits THEN StoreErrs
     ELSE {e \in StoreErrs : ~IsUniqueViolation(e)}]

Init ==
  /\ InitPipe(AnyStoreRun(NumSets,
                           {Fetched(L) : L \in SourceLists} \cup {FetchFailed},
                           AnyAnswer))
  /\ arg = <<>>
  /\ res = <<>>

\* a process whose goroutines go on after log.Fatal or a panic
RunningDespiteHalt == pc # "exit"

Running == halt = "" /\ pc # "exit"

\* a Wait that does not wait for the counter
WaitReturnsAlways(counter) == TRUE

\* sync.WaitGroup.Wait returns
WaitReturns(counter) == counter = 0

\* a receive that reports a closed channel although messages are still buffered
RecvClosedAsEmpty(ch, isClosed) == isClosed

\* v, open := <-ch yields open = false: the channel is closed and drained
RecvClosed(ch, isClosed) == isClosed /\ ch = <<>>

(***************************************************************************)
(* main(): product line and sets added to the store                        *)
(***************************************************************************)
\* store.AddProductLine and the switch on its error: a unique violation is
\* answered by GetProductLineByName(productLine.UrlName), another PgError
\* by log.Fatal, any other error by nothing
MainAddProductLine ==
  /\ Running /\ pc = "addProductLine"
  /\ \E f \in {"none"} \cup cfg.faults :
       LET r == AddProductLine(store, productLine)
           g == GetProductLineByName(r.store, productLine.UrlName)
       IN  IF f = "pg"
           THEN halt' = FatalAddProductLine /\ UNCHANGED <<pc, store, productLine>>
           ELSE IF f = "conn"
                THEN pc' = "addSets" /\ UNCHANGED <<halt, store, productLine>>
                ELSE /\ pc' = "addSets"
                     /\ halt' = halt
                     /\ store' = r.store
                     /\ productLine' = IF IsUniqueViolation(r.err)
                                       THEN g.productLine
                                       ELSE r.productLine
  /\ UNCHANGED <<cfg, files, sets, hist, next, dataCtxChan, jobsChan, jobStatChan, imgInfoChan,
                 closed, closeLog, dw, jw, sw, iw, wg, sent, recv, repairLog, lastRepair,
                 arg, res>>

\* associateSetsWithProductLine, store.AddSets and the switch on its error:
\* the error of a failed batch is no PgError and main() goes on
MainAddSets ==
  /\ Running /\ pc = "addSets"
  /\ \E f \in {"none"} \cup cfg.faults :
       LET assoc == associateSetsWithProductLine(sets, productLine.Id)
           r == AddSets(store, assoc)
       IN  IF f = "pg"
           THEN halt' = FatalAddSets /\ sets' = r.sets /\ UNCHANGED <<pc, store>>
           ELSE IF f = "conn"
                THEN pc' = "seed" /\ sets' = assoc /\ UNCHANGED <<halt, store>>
                ELSE /\ pc' = "seed"
                     /\ halt' = halt
                     /\ store' = r.store
                     /\ sets' = r.sets
  /\ UNCHANGED <<cfg, files, productLine, hist, next, dataCtxChan, jobsChan, jobStatChan,
                 imgInfoChan, closed, closeLog, dw, jw, sw, iw, wg, sent, recv, repairLog,
                 lastRepair, arg, res>>

(***************************************************************************)
(* main(): seeding loop and shutdown                                       *)
(***************************************************************************)
\* wpConf.dataCtxChan <- dataCtx, one per set
Seed ==
  /\ Running /\ pc = "seed" /\ next <= cfg.nSets
  /\ Len(dataCtxChan) < DataCtxChanCap
  /\ dataCtxChan' = Append(dataCtxChan, [productLine |-> productLine.Id, set |-> sets[next]])
  /\ next' = next + 1
  /\ sent' = [sent EXCEPT !.dc = @ + 1]
  /\ UNCHANGED <<cfg, files, productLine, sets, store, hist, pc, jobsChan, jobStatChan, imgInfoChan, closed, closeLog, dw, jw,
                 sw, iw, wg, halt, recv, repairLog, lastRepair, arg, res>>

\* close(ch) in main(), moving to the wait that follows it
CloseChan(at, name, to) ==
  /\ Running /\ pc = at
  /\ closed' = [closed EXCEPT ![name] = TRUE]
  /\ closeLog' = Append(closeLog, name)
  /\ pc' = to
  /\ UNCHANGED <<cfg, files, productLine, sets, store, hist, next, dataCtxChan, jobsChan, jobStatChan,
                 imgInfoChan, dw, jw, sw, iw, wg, halt, sent, recv, repairLog, lastRepair,
                 arg, res>>

\* a WaitGroup.Wait() in main() returning, moving to the statement after it
WaitFor(at, counter, to) ==
  /\ Running /\ pc = at
  /\ WaitReturns(counter)
  /\ pc' = to
  /\ UNCHANGED <<cfg, files, productLine, sets, store, hist, next, dataCtxChan, jobsChan, jobStatChan, imgInfoChan, closed,
                 closeLog, dw, jw, sw, iw, wg, halt, sent, recv, repairLog, lastRepair,
                 arg, res>>

CloseDataCtxChan == pc = "seed" /\ next > cfg.nSets /\ CloseChan("seed", "dc", "waitData")
WaitData == WaitFor("waitData", wg.data, "closeJobs")
CloseJobsChan == CloseChan("closeJobs", "jobs", "waitJob")
WaitJob == WaitFor("waitJob", wg.job, "closeStat")
CloseJobStatChan == CloseChan("closeStat", "stat", "waitStatus")
WaitStatus == WaitFor("waitStatus", wg.status, "closeImg")
CloseImgInfoChan == CloseChan("closeImg", "img", "waitImage")
\* imageWaitGroup.Wait() returns and main() reaches os.Exit(0)
WaitImage == WaitFor("waitImage", wg.image, "exit")

(***************************************************************************)
(* dataWorker                                                              *)
(***************************************************************************)
\* toProducts: the results of the search for one set, each carrying the
\* source's product id, its name and the name of the set searched
toProducts(results, setName) ==
  [i \in 1..Len(results) |-> [results[i] EXCEPT !.SetName = setName]]

\* if len(products) == 0 { continue } with products screened before the test
noProductsScreened(products) == Len(screenProducts(products)) = 0

\* if len(products) == 0 { continue }
noProducts(products) == Len(products) = 0

\* dc := <-dcChan, fetch, screen, count, stamp, NewJob
DataRecv(w) ==
  /\ Running /\ dw[w].pc = "recv" /\ dataCtxChan # <<>>
  /\ dataCtxChan' = Tail(dataCtxChan)
  /\ recv' = [recv EXCEPT !.dc = @ + 1]
  /\ \E r \in cfg.fetch :
       LET dc == Head(dataCtxChan)
           products == screenProducts(toProducts(r.products, dc.set.Name))
           set == [dc.set EXCEPT !.Count = Len(products)]
           stamped == assocProductsWithSetAndProductLine(products, set.Id, dc.productLine)
       IN  /\ IF ~r.ok
              THEN halt' = FatalFetch /\ dw' = dw
              ELSE IF noProducts(r.products)
                   THEN halt' = halt /\ dw' = dw
                   ELSE /\ halt' = halt
                        /\ dw' = [dw EXCEPT ![w] =
                                    [pc |-> "send",
                                     job |-> NewJob(dc.productLine, set, stamped)]]
           /\ hist' = IF ~r.ok THEN hist
                      ELSE IF Len(r.products) = 0
                           THEN [hist EXCEPT !.fetchedNone = @ + 1]
                           ELSE [hist EXCEPT !.fetchedSome = @ + 1]
  /\ UNCHANGED <<cfg, files, productLine, sets, store, pc, next, jobsChan, jobStatChan,
                 imgInfoChan, closed, closeLog, jw, sw, iw, wg, sent, repairLog,
                 lastRepair, arg, res>>

\* a data worker that keeps its job after sending it
DataSendKeeping(w) ==
  /\ Running /\ dw[w].pc = "send"
  /\ IF closed.jobs
     THEN halt' = PanicSendClosed /\ UNCHANGED <<jobsChan, dw, sent, hist>>
     ELSE /\ Len(jobsChan) < JobsChanCap
          /\ jobsChan' = Append(jobsChan, dw[w].job)
          /\ dw' = [dw EXCEPT ![w].pc = "recv"]
          /\ sent' = [sent EXCEPT !.jobs = @ + 1]
          /\ hist' = [hist EXCEPT !.dataSent = @ + 1,
                                   !.bySet[dw[w].job.set.Name].sent = @ + 1]
          /\ halt' = halt
  /\ UNCHANGED <<cfg, files, productLine, sets, store, pc, next, dataCtxChan, jobStatChan,
                 imgInfoChan, closed, closeLog, jw, sw, iw, wg, recv, repairLog,
                 lastRepair, arg, res>>

\* jobsChan <- job
DataSend(w) ==
  /\ Running /\ dw[w].pc = "send"
  /\ IF closed.jobs
     THEN halt' = PanicSendClosed /\ UNCHANGED <<jobsChan, dw, sent, hist>>
     ELSE /\ Len(jobsChan) < JobsChanCap
          /\ jobsChan' = Append(jobsChan, dw[w].job)
          /\ dw' = [dw EXCEPT ![w] = [pc |-> "recv", job |-> NoJob]]
          /\ sent' = [sent EXCEPT !.jobs = @ + 1]
          /\ hist' = [hist EXCEPT !.dataSent = @ + 1,
                                   !.bySet[dw[w].job.set.Name].sent = @ + 1]
          /\ halt' = halt
  /\ UNCHANGED <<cfg, files, productLine, sets, store, pc, next, dataCtxChan, jobStatChan,
                 imgInfoChan, closed, closeLog, jw, sw, iw, wg, recv, repairLog,
                 lastRepair, arg, res>>

\* a data worker that returns without wg.Done()
DataExitNotDone(w) ==
  /\ Running /\ dw[w].pc = "recv"
  /\ RecvClosed(dataCtxChan, closed.dc)
  /\ dw' = [dw EXCEPT ![w].pc = "done"]
  /\ wg' = wg
  /\ UNCHANGED <<cfg, files, productLine, sets, store, hist, pc, next, dataCtxChan, jobsChan, jobStatChan, imgInfoChan, closed,
                 closeLog, jw, sw, iw, halt, sent, recv, repairLog, lastRepair, arg, res>>

\* dcChan closed: return, deferred wg.Done()
DataExit(w) ==
  /\ Running /\ dw[w].pc = "recv"
  /\ RecvClosed(dataCtxChan, closed.dc)
  /\ dw' = [dw EXCEPT ![w].pc = "done"]
  /\ wg' = [wg EXCEPT !.data = @ - 1]
  /\ UNCHANGED <<cfg, files, productLine, sets, store, hist, pc, next, dataCtxChan, jobsChan, jobStatChan, imgInfoChan, closed,
                 closeLog, jw, sw, iw, halt, sent, recv, repairLog, lastRepair, arg, res>>

(***************************************************************************)
(* jobWorker                                                               *)
(***************************************************************************)
\* the answers store.AddSetData may give to job: against Postgres what the
\* tables make of it, or a failed connection where the run has such faults;
\* a set that was repaired MaxResubmits times gets no further unique violation
AddSetDataAnswers(job) ==
  LET k == Len(repairLog[job.set.Name])
      r == AddSetData(store, job.set, job.productList, cfg.detail)
      failed == [store |-> store, err |-> OtherErr]
      aborted == [store |-> r.store, err |-> PgError(SerializationFailure, EmptyDetail)]
  IN  IF ~cfg.pg
      THEN {[store |-> store, err |-> e] : e \in cfg.errs[k]}
      ELSE IF k >= MaxResubmits /\ IsUniqueViolation(r.err)
           THEN {failed}
           ELSE {r} \cup (IF "conn" \in cfg.faults THEN {failed} ELSE {})
                    \cup (IF "pg" \in cfg.faults /\ r.err = NoErr
                          THEN {[aborted EXCEPT !.store.sets = store.sets,
                                                !.store.products = store.products]}
                          ELSE {})

\* a JobStatus that reports success whatever the error
NewJobStatusAlwaysSuccess(job, err, id) ==
  [success |-> TRUE, err |-> err, worker |-> id, job |-> job]

\* jobStatus := JobStatus{job: job}, then success, err and worker filled in
NewJobStatus(job, err, id) ==
  [success |-> (err = NoErr), err |-> err, worker |-> id, job |-> job]

\* job := <-jobsChan, store.AddSetData, fill in the JobStatus
JobRecv(w) ==
  /\ Running /\ jw[w].pc = "recv" /\ jobsChan # <<>>
  /\ jobsChan' = Tail(jobsChan)
  /\ recv' = [recv EXCEPT !.jobs = @ + 1]
  /\ \E a \in AddSetDataAnswers(Head(jobsChan)) :
       LET job == Head(jobsChan)
       IN  /\ store' = a.store
           /\ hist' = [hist EXCEPT !.addSetData = @ + 1,
                                    !.bySet[job.set.Name].attempts = @ + 1,
                                    !.bySet[job.set.Name].succeeded =
                                       IF a.err = NoErr THEN @ + 1 ELSE @]
           /\ jw' = [jw EXCEPT ![w] =
                       [pc |-> "send", job |-> job, err |-> a.err,
                        status |-> NewJobStatus(job, a.err, w)]]
  /\ UNCHANGED <<cfg, files, productLine, sets, pc, next, dataCtxChan, jobStatChan,
                 imgInfoChan, closed, closeLog, dw, sw, iw, wg, halt, sent, repairLog,
                 lastRepair, arg, res>>

\* a send that does not wait for room in the channel
JobSendUnbounded(w) ==
  /\ Running /\ jw[w].pc = "send"
  /\ IF closed.stat
     THEN halt' = PanicSendClosed /\ UNCHANGED <<jobStatChan, jw, sent>>
     ELSE /\ jobStatChan' = Append(jobStatChan, jw[w].status)
          /\ jw' = [jw EXCEPT ![w] =
                      [pc |-> "recv", job |-> NoJob, err |-> NoErr, status |-> NoStatus]]
          /\ sent' = [sent EXCEPT !.stat = @ + 1]
          /\ halt' = halt
  /\ UNCHANGED <<cfg, files, productLine, sets, store, hist, pc, next, dataCtxChan, jobsChan, imgInfoChan, closed, closeLog, dw,
                 sw, iw, wg, recv, repairLog, lastRepair, arg, res>>

\* statChan <- jobStatus
JobSend(w) ==
  /\ Running /\ jw[w].pc = "send"
  /\ IF closed.stat
     THEN halt' = PanicSendClosed /\ UNCHANGED <<jobStatChan, jw, sent>>
     ELSE /\ Len(jobStatChan) < JobStatChanCap
          /\ jobStatChan' = Append(jobStatChan, jw[w].status)
          /\ jw' = [jw EXCEPT ![w] =
                      [pc |-> "recv", job |-> NoJob, err |-> NoErr, status |-> NoStatus]]
          /\ sent' = [sent EXCEPT !.stat = @ + 1]
          /\ halt' = halt
  /\ UNCHANGED <<cfg, files, productLine, sets, store, hist, pc, next, dataCtxChan, jobsChan, imgInfoChan, closed, closeLog, dw,
                 sw, iw, wg, recv, repairLog, lastRepair, arg, res>>

\* jobsChan closed: return, deferred wg.Done()
JobExit(w) ==
  /\ Running /\ jw[w].pc = "recv"
  /\ RecvClosed(jobsChan, closed.jobs)
  /\ jw' = [jw EXCEPT ![w].pc = "done"]
  /\ wg' = [wg EXCEPT !.job = @ - 1]
  /\ UNCHANGED <<cfg, files, productLine, sets, store, hist, pc, next, dataCtxChan, jobsChan, jobStatChan, imgInfoChan, closed,
                 closeLog, dw, sw, iw, halt, sent, recv, repairLog, lastRepair, arg, res>>

(***************************************************************************)
(* statusWorker                                                            *)
(***************************************************************************)
\* status := <-jobStatChan and the branch taken on it, up to the send
StatusRecv(w) ==
  /\ Running /\ sw[w].pc = "recv" /\ jobStatChan # <<>>
  /\ jobStatChan' = Tail(jobStatChan)
  /\ recv' = [recv EXCEPT !.stat = @ + 1]
  /\ LET status == Head(jobStatChan)
         list == status.job.productList
         dup == getDuplicateKey(status.err.Detail)
         repaired == removeProductByProductNumber(list, dup.number)
     IN  IF status.success
         THEN /\ sw' = [sw EXCEPT ![w] =
                          [pc |-> "sendImg", status |-> status, repair |-> NoRepair]]
              /\ halt' = halt
         ELSE IF status.err.kind = "pg"
              THEN IF status.err.Code = UniqueViolationError
                   THEN IF dup.panic
                        THEN halt' = PanicIndex /\ sw' = sw
                        ELSE IF removeProductByProductNumberPanics(list)
                             THEN halt' = PanicMakeLen /\ sw' = sw
                             ELSE /\ halt' = halt
                                  /\ sw' = [sw EXCEPT ![w] =
                                       [pc |-> "sendJob",
                                        status |-> [status EXCEPT !.job.productList = repaired],
                                        repair |-> [done |-> TRUE, set |-> status.job.set.Name,
                                                    key |-> dup.number, before |-> list,
                                                    after |-> repaired]]]
                   ELSE IF Len(list) = 0
                        THEN halt' = PanicIndex /\ sw' = sw
                        ELSE halt' = halt /\ sw' = sw
              ELSE halt' = halt /\ sw' = sw
  /\ hist' = [hist EXCEPT !.bySet[Head(jobStatChan).job.set.Name].inspected = @ + 1]
  /\ UNCHANGED <<cfg, files, productLine, sets, store, pc, next, dataCtxChan, jobsChan, imgInfoChan, closed, closeLog, dw,
                 jw, iw, wg, sent, repairLog, lastRepair, arg, res>>

\* imgInfoChan <- status.job.productList
StatusSendImg(w) ==
  /\ Running /\ sw[w].pc = "sendImg"
  /\ IF closed.img
     THEN halt' = PanicSendClosed /\ UNCHANGED <<imgInfoChan, sw, sent, hist>>
     ELSE /\ Len(imgInfoChan) < ImgInfoChanCap
          /\ imgInfoChan' = Append(imgInfoChan, sw[w].status.job.productList)
          /\ sw' = [sw EXCEPT ![w] =
                      [pc |-> "recv", status |-> NoStatus, repair |-> NoRepair]]
          /\ sent' = [sent EXCEPT !.img = @ + 1]
          /\ hist' = [hist EXCEPT !.bySet[sw[w].status.job.set.Name].forwarded = @ + 1]
          /\ halt' = halt
  /\ UNCHANGED <<cfg, files, productLine, sets, store, pc, next, dataCtxChan, jobsChan, jobStatChan, closed, closeLog, dw,
                 jw, iw, wg, recv, repairLog, lastRepair, arg, res>>

\* a feedback edge that sends the repaired job twice
StatusSendJobTwice(w) ==
  /\ Running /\ sw[w].pc = "sendJob"
  /\ IF closed.jobs
     THEN halt' = PanicSendClosed /\ UNCHANGED <<jobsChan, sw, sent, repairLog, lastRepair>>
     ELSE /\ Len(jobsChan) + 1 < JobsChanCap
          /\ jobsChan' = jobsChan \o <<sw[w].status.job, sw[w].status.job>>
          /\ sw' = [sw EXCEPT ![w] =
                      [pc |-> "recv", status |-> NoStatus, repair |-> NoRepair]]
          /\ sent' = [sent EXCEPT !.jobs = @ + 1]
          /\ repairLog' = [repairLog EXCEPT ![sw[w].repair.set] =
                             Append(@, [key |-> sw[w].repair.key,
                                        before |-> Len(sw[w].repair.before),
                                        after |-> Len(sw[w].repair.after)])]
          /\ lastRepair' = sw[w].repair
          /\ halt' = halt
  /\ UNCHANGED <<cfg, files, productLine, sets, store, hist, pc, next, dataCtxChan, jobStatChan, imgInfoChan, closed, closeLog,
                 dw, jw, iw, wg, recv, arg, res>>

\* jobChan <- status.job, the feedback edge
StatusSendJob(w) ==
  /\ Running /\ sw[w].pc = "sendJob"
  /\ IF closed.jobs
     THEN halt' = PanicSendClosed /\ UNCHANGED <<jobsChan, sw, sent, repairLog, lastRepair>>
     ELSE /\ Len(jobsChan) < JobsChanCap
          /\ jobsChan' = Append(jobsChan, sw[w].status.job)
          /\ sw' = [sw EXCEPT ![w] =
                      [pc |-> "recv", status |-> NoStatus, repair |-> NoRepair]]
          /\ sent' = [sent EXCEPT !.jobs = @ + 1]
          /\ repairLog' = [repairLog EXCEPT ![sw[w].repair.set] =
                             Append(@, [key |-> sw[w].repair.key,
                                        before |-> Len(sw[w].repair.before),
                                        after |-> Len(sw[w].repair.after)])]
          /\ lastRepair' = sw[w].repair
          /\ halt' = halt
  /\ UNCHANGED <<cfg, files, productLine, sets, store, hist, pc, next, dataCtxChan, jobStatChan, imgInfoChan, closed, closeLog,
                 dw, jw, iw, wg, recv, arg, res>>

\* jobStatChan closed: return, deferred wg.Done()
StatusExit(w) ==
  /\ Running /\ sw[w].pc = "recv"
  /\ RecvClosed(jobStatChan, closed.stat)
  /\ sw' = [sw EXCEPT ![w].pc = "done"]
  /\ wg' = [wg EXCEPT !.status = @ - 1]
  /\ UNCHANGED <<cfg, files, productLine, sets, store, hist, pc, next, dataCtxChan, jobsChan, jobStatChan, imgInfoChan, closed,
                 closeLog, dw, jw, iw, halt, sent, recv, repairLog, lastRepair, arg, res>>

(***************************************************************************)
(* imageWorker                                                             *)
(***************************************************************************)
\* const CARD_IMAGE_DIR
CARD_IMAGE_DIR == "/home/gurbos/card_images/"

\* fmt.Sprintf("%s%d_in_%s", CARD_IMAGE_DIR, id, tcapi.IMAGE_FORMAT_SUFFIX),
\* the suffix kept as the name of the constant
FileName(id) == CARD_IMAGE_DIR \o ToString(id) \o "_in_" \o "IMAGE_FORMAT_SUFFIX"

\* the bytes FetchProductImageById returns for a source-side product id
ImageOf(id) == <<"image", id>>

\* getProductIdByName: the id of the first product of that name, else 0
getProductIdByName(products, name) ==
  LET hits == {i \in 1..Len(products) : products[i].ProductName = name}
  IN  IF hits = {} THEN 0
      ELSE products[CHOOSE i \in hits : \A j \in hits : i <= j].ProductId

RECURSIVE Flatten(_)
\* the concatenation of a sequence of sequences
Flatten(seqs) == IF seqs = <<>> THEN <<>> ELSE Head(seqs) \o Flatten(Tail(seqs))

RECURSIVE Numbered(_)
\* the rows of a table in some order
Numbered(rows) ==
  IF rows = {} THEN <<>>
  ELSE LET r == CHOOSE x \in rows : TRUE IN Append(Numbered(rows \ {r}), r)

\* the id a store gives the row of the i-th product it is given: not the
\* source's id of the product
StoreId(sourceId, i) == 10 * (sourceId + 1) + i

\* store.GetProductsBySetName(ctx, setName): SELECT * FROM products WHERE
\* set_name = $1, each row with the id the store assigned.  Against Postgres
\* the rows of the table; otherwise the rows of the products AddSetData was
\* given for prodList, found as c.images.lookup says.
GetProductsBySetName(c, st, prodList, setName) ==
  LET rows == Numbered({r \in st.products : r.SetName = setName})
      given == {i \in 1..Len(prodList) : prodList[i].SetName = setName}
      found == IF c.images.lookup = "dropLast" THEN given \ {Len(prodList)} ELSE given
      byIndex == [i \in 1..Len(prodList) |->
                    IF i \in found
                    THEN <<[prodList[i] EXCEPT !.ProductId = StoreId(@, i)]>>
                    ELSE <<>>]
  IN  IF c.pg
      THEN [err |-> NoErr,
            products |-> [i \in 1..Len(rows) |->
                            [ProductNumber |-> rows[i].ProductNumber, ProductId |-> i,
                             ProductName |-> rows[i].ProductName,
                             SetName |-> rows[i].SetName, SetId |-> rows[i].SetId,
                             ProductLineId |-> rows[i].ProductLineId]]]
      ELSE IF c.images.lookup = "err"
           THEN [err |-> OtherErr, products |-> <<>>]
           ELSE [err |-> NoErr, products |-> Flatten(byIndex)]

\* the loop over prodList stopping at the first image that cannot be fetched
imgFilesUntilFailure(prodList, products, badImages) ==
  LET bad == {i \in 1..Len(prodList) : prodList[i].ProductId \in badImages}
      ok == {i \in 1..Len(prodList) : \A j \in bad : i < j}
      nameOf(i) == FileName(getProductIdByName(products, prodList[i].ProductName))
  IN  [f \in {nameOf(i) : i \in ok} |->
         ImageOf(prodList[CHOOSE i \in ok :
                            nameOf(i) = f /\ \A j \in ok : nameOf(j) = f => j <= i].ProductId)]

\* imgFiles after the loop over prodList: for every product whose image was
\* fetched, imgFiles[fileName] = imgData, a later product replacing an
\* earlier one of the same file name
imgFiles(prodList, products, badImages) ==
  LET ok == {i \in 1..Len(prodList) : prodList[i].ProductId \notin badImages}
      nameOf(i) == FileName(getProductIdByName(products, prodList[i].ProductName))
  IN  [f \in {nameOf(i) : i \in ok} |->
         ImageOf(prodList[CHOOSE i \in ok :
                            nameOf(i) = f /\ \A j \in ok : nameOf(j) = f => j <= i].ProductId)]

\* os.WriteFile for every entry of imgFiles, a failing one logged and left out
WriteFiles(fs, entries, badFiles) ==
  LET written == {f \in DOMAIN entries : f \notin badFiles}
  IN  [f \in DOMAIN fs \cup written |-> IF f \in written THEN entries[f] ELSE fs[f]]

\* prodList := <-imgIdChan; prodList[0].SetName; fetch and write the images
ImageRecv(w) ==
  /\ Running /\ iw[w].pc = "recv" /\ imgInfoChan # <<>>
  /\ imgInfoChan' = Tail(imgInfoChan)
  /\ recv' = [recv EXCEPT !.img = @ + 1]
  /\ LET prodList == Head(imgInfoChan)
         r == GetProductsBySetName(cfg, store, prodList, prodList[1].SetName)
     IN  IF Len(prodList) = 0
         THEN halt' = PanicIndex /\ files' = files
         ELSE /\ halt' = halt
              /\ files' = IF r.err # NoErr THEN files
                          ELSE WriteFiles(files,
                                          imgFiles(prodList, r.products, cfg.images.badImages),
                                          cfg.images.badFiles)
  /\ UNCHANGED <<cfg, productLine, sets, store, hist, pc, next, dataCtxChan, jobsChan, jobStatChan, closed, closeLog, dw,
                 jw, sw, iw, wg, sent, repairLog, lastRepair, arg, res>>

\* imgIdChan closed: break, deferred wg.Done()
ImageExit(w) ==
  /\ Running /\ iw[w].pc = "recv"
  /\ RecvClosed(imgInfoChan, closed.img)
  /\ iw' = [iw EXCEPT ![w].pc = "done"]
  /\ wg' = [wg EXCEPT !.image = @ - 1]
  /\ UNCHANGED <<cfg, files, productLine, sets, store, hist, pc, next, dataCtxChan, jobsChan, jobStatChan, imgInfoChan, closed,
                 closeLog, dw, jw, sw, halt, sent, recv, repairLog, lastRepair, arg, res>>

(***************************************************************************)
(* Specifications                                                          *)
(***************************************************************************)
Next ==
  \/ Seed
  \/ CloseDataCtxChan
  \/ WaitData
  \/ CloseJobsChan
  \/ WaitJob
  \/ CloseJobStatChan
  \/ WaitStatus
  \/ CloseImgInfoChan
  \/ WaitImage
  \/ \E w \in DataWorkers : DataRecv(w)
  \/ \E w \in DataWorkers : DataSend(w)
  \/ \E w \in DataWorkers : DataExit(w)
  \/ \E w \in JobWorkers : JobRecv(w)
  \/ \E w \in JobWorkers : JobSend(w)
  \/ \E w \in JobWorkers : JobExit(w)
  \/ \E w \in StatusWorkers : StatusRecv(w)
  \/ \E w \in StatusWorkers : StatusSendImg(w)
  \/ \E w \in StatusWorkers : StatusSendJob(w)
  \/ \E w \in StatusWorkers : StatusExit(w)
  \/ \E w \in ImageWorkers : ImageRecv(w)
  \/ \E w \in ImageWorkers : ImageExit(w)

Spec == Init /\ [][Next]_vars

\* every goroutine that can run is eventually scheduled
FairSpec == Spec /\ WF_vars(Next)

\* the store answers the first write attempt for a set with a unique violation
\* that carries no detail, and accepts the re-submitted job
ConflictFirst ==
  [k \in 0..MaxResubmits |->
     IF k = 0 THEN {PgError(UniqueViolationError, EmptyDetail)} ELSE {NoErr}]

\* runs with enough sets to fill both channels of the feedback cycle
InitCycle ==
  /\ InitPipe(AnyStoreRun(CycleSets, {Fetched(<<Product("007", 1)>>)}, ConflictFirst))
  /\ arg = <<>>
  /\ res = <<>>

SpecCycle == InitCycle /\ [][Next]_vars

(***************************************************************************)
(* Runs that exercise the image stage: every set has the same two          *)
(* products, AddSetData succeeds at once or after one repair, and the      *)
(* lookup of the persisted rows, the image fetches and the file writes     *)
(* fail in the ways of ImageFaults.                                        *)
(***************************************************************************)
ImageProducts == <<Product("007", 1), Product("001", 2)>>

\* two products of one name that differ in product number and source id
SameNameProducts == <<Product("007", 1), [Product("008", 3) EXCEPT !.ProductName = "1"]>>

ConflictFirstOrNever ==
  [k \in 0..MaxResubmits |->
     IF k = 0 THEN {NoErr, PgError(UniqueViolationError, EmptyDetail)} ELSE {NoErr}]

ImageFaults ==
  { [lookup |-> l, badImages |-> b, badFiles |-> f] :
      l \in {"all", "dropLast", "err"},
      b \in {{}, {1}, {2}},
      f \in {{}, {FileName(StoreId(1, 1))}} }

InitImage ==
  /\ \E i \in ImageFaults :
       InitPipe([AnyStoreRun(NumSets,
                             {Fetched(ImageProducts), Fetched(SameNameProducts)},
                             ConflictFirstOrNever)
                   EXCEPT !.images = i])
  /\ arg = <<>>
  /\ res = <<>>

SpecImage == InitImage /\ [][Next]_vars

(***************************************************************************)
(* LaunchWorkerPool: runs that start before the workers are launched, for  *)
(* GOMAXPROCS of 1, 2 and one value that gives a pool of PoolSize.         *)
(***************************************************************************)
NoWorkers == [w \in {} |-> [pc |-> "recv"]]

LaunchRuns ==
  { [AnyStoreRun(NumSets, {Fetched(ImageProducts)}, ConflictFirstOrNever)
       EXCEPT !.gomaxprocs = g] : g \in {1, 2, 3 * PoolSize + 1} }

\* main() after NewWorkerPoolConfig: channels made, wait-groups new, no worker
InitLaunch ==
  /\ cfg \in LaunchRuns
  /\ pc = "launch"
  /\ next = 1
  /\ dataCtxChan = <<>>
  /\ jobsChan = <<>>
  /\ jobStatChan = <<>>
  /\ imgInfoChan = <<>>
  /\ closed = [dc |-> FALSE, jobs |-> FALSE, stat |-> FALSE, img |-> FALSE]
  /\ closeLog = <<>>
  /\ dw = NoWorkers
  /\ jw = NoWorkers
  /\ sw = NoWorkers
  /\ iw = NoWorkers
  /\ wg = [data |-> 0, job |-> 0, status |-> 0, image |-> 0]
  /\ halt = ""
  /\ sent = [dc |-> 0, jobs |-> 0, stat |-> 0, img |-> 0]
  /\ recv = [dc |-> 0, jobs |-> 0, stat |-> 0, img |-> 0]
  /\ repairLog = [s \in {SetName(k) : k \in 1..cfg.nSets} |-> <<>>]
  /\ lastRepair = NoRepair
  /\ files = NoFiles
  /\ hist = NoHist @@ [bySet |-> NoSetHist({SetName(k) : k \in 1..cfg.nSets})]
  /\ productLine = [cfg.productLine EXCEPT !.Id = ProductLineId]
  /\ sets = [k \in 1..cfg.nSets |-> SetOf(k)]
  /\ store = StoreAfterSetup(cfg.productLine, cfg.nSets)
  /\ arg = <<>>
  /\ res = <<>>

\* the loop LaunchWorkerPool is in: job workers first, then data, status and
\* image workers, poolSize of each but poolSize+2 image workers
LaunchStage ==
  IF Cardinality(DOMAIN jw) < maxProcs THEN "job"
  ELSE IF Cardinality(DOMAIN dw) < maxProcs THEN "data"
  ELSE IF Cardinality(DOMAIN sw) < maxProcs THEN "status"
  ELSE IF Cardinality(DOMAIN iw) < maxProcs + 2 THEN "image"
  ELSE "done"

\* wpConfig.<stage>WaitGroup.Add(1)
WaitGroupAdd ==
  /\ pc = "launch" /\ LaunchStage # "done"
  /\ wg' = [wg EXCEPT ![LaunchStage] = @ + 1]
  /\ pc' = "go"
  /\ UNCHANGED <<cfg, files, productLine, sets, store, hist, next, dataCtxChan, jobsChan,
                 jobStatChan, imgInfoChan, closed, closeLog, dw, jw, sw, iw, halt,
                 sent, recv, repairLog, lastRepair, arg, res>>

\* the workers of a stage with one more, numbered next, at its receive
Started1(workers, idle) == workers @@ ((Cardinality(DOMAIN workers) + 1) :> idle)

\* go jobWorker(i, ...)
GoJobWorker ==
  /\ pc = "go" /\ LaunchStage = "job"
  /\ jw' = Started1(jw, [pc |-> "recv", job |-> NoJob, err |-> NoErr, status |-> NoStatus])
  /\ pc' = "launch"
  /\ UNCHANGED <<cfg, files, productLine, sets, store, hist, next, dataCtxChan, jobsChan,
                 jobStatChan, imgInfoChan, closed, closeLog, dw, sw, iw, wg, halt,
                 sent, recv, repairLog, lastRepair, arg, res>>

\* go dataWorker(j, ...)
GoDataWorker ==
  /\ pc = "go" /\ LaunchStage = "data"
  /\ dw' = Started1(dw, [pc |-> "recv", job |-> NoJob])
  /\ pc' = "launch"
  /\ UNCHANGED <<cfg, files, productLine, sets, store, hist, next, dataCtxChan, jobsChan,
                 jobStatChan, imgInfoChan, closed, closeLog, jw, sw, iw, wg, halt,
                 sent, recv, repairLog, lastRepair, arg, res>>

\* go statusWorker(k, ...)
GoStatusWorker ==
  /\ pc = "go" /\ LaunchStage = "status"
  /\ sw' = Started1(sw, [pc |-> "recv", status |-> NoStatus, repair |-> NoRepair])
  /\ pc' = "launch"
  /\ UNCHANGED <<cfg, files, productLine, sets, store, hist, next, dataCtxChan, jobsChan,
                 jobStatChan, imgInfoChan, closed, closeLog, dw, jw, iw, wg, halt,
                 sent, recv, repairLog, lastRepair, arg, res>>

\* go imageWorker(l, ...)
GoImageWorker ==
  /\ pc = "go" /\ LaunchStage = "image"
  /\ iw' = Started1(iw, [pc |-> "recv"])
  /\ pc' = "launch"
  /\ UNCHANGED <<cfg, files, productLine, sets, store, hist, next, dataCtxChan, jobsChan,
                 jobStatChan, imgInfoChan, closed, closeLog, dw, jw, sw, wg, halt,
                 sent, recv, repairLog, lastRepair, arg, res>>

\* LaunchWorkerPool returns and main() enters the seeding loop
LaunchReturn ==
  /\ pc = "launch" /\ LaunchStage = "done"
  /\ pc' = "seed"
  /\ UNCHANGED <<cfg, files, productLine, sets, store, hist, next, dataCtxChan, jobsChan,
                 jobStatChan, imgInfoChan, closed, closeLog, dw, jw, sw, iw, wg, halt,
                 sent, recv, repairLog, lastRepair, arg, res>>

NextLaunch ==
  \/ WaitGroupAdd
  \/ GoJobWorker
  \/ GoDataWorker
  \/ GoStatusWorker
  \/ GoImageWorker
  \/ LaunchReturn
  \/ Next

SpecLaunch == InitLaunch /\ [][NextLaunch]_vars

\* every goroutine that can run is eventually scheduled
FairSpecLaunch == SpecLaunch /\ WF_vars(NextLaunch)

(***************************************************************************)
(* Runs of main() from AddProductLine on against the Postgres store        *)
(***************************************************************************)
\* the store of the run: empty, left by an earlier run of the same sets, or
\* left by an earlier run that knew the last set only; with or without
\* failing connections and transactions; the detail of errors shown or not
PostgresRuns ==
  { [nSets |-> NumSets,
     fetch |-> {Fetched(L) : L \in SourceLists} \cup {FetchFailed},
     errs |-> AnyAnswer, pg |-> TRUE, detail |-> d, faults |-> f,
     productLine |-> pl, store |-> st, images |-> NoImageFaults,
     gomaxprocs |-> 3 * PoolSize] :
       d \in BOOLEAN, f \in {{}, {"conn", "pg"}}, pl \in SourceProductLines,
       st \in UNION {{EmptyStore, StoreAfterSetup(q, NumSets), StoreAfterRun(q, <<NumSets>>)} :
                       q \in SourceProductLines} }

InitStore ==
  /\ \E c \in {r \in PostgresRuns :
                  r.store = EmptyStore \/ r.productLine \in
                    {[q EXCEPT !.Id = 0] : q \in r.store.productLines}} :
       /\ InitWorkerPool(c)
       /\ productLine = c.productLine
       /\ sets = [k \in 1..c.nSets |-> SourceSet(k)]
       /\ store = c.store
  /\ pc = "addProductLine"
  /\ arg = <<>>
  /\ res = <<>>

NextStore == MainAddProductLine \/ MainAddSets \/ Next

SpecStore == InitStore /\ [][NextStore]_vars

(***************************************************************************)
(* screenProducts on its own: the data worker's screening step applied to  *)
(* a fetched list, and applied again to its own result                     *)
(***************************************************************************)
ProductPool == {Product("", 1), Product("007", 2), Product("007", 3), Product("001", 4)}

\* a source count of 10: two products share "007", one has no number
ScenarioA ==
  <<Product("001", 11), Product("002", 12), Product("007", 13), Product("003", 14),
    Product("", 15), Product("004", 16), Product("007", 17), Product("005", 18),
    Product("006", 19), Product("008", 20)>>

ScreenInputs ==
  UNION {[1..n -> ProductPool] : n \in 0..MaxLen} \cup {ScenarioA}

InitScreen ==
  /\ InitPipe(AnyStoreRun(0, {}, AnyAnswer))
  /\ arg \in ScreenInputs
  /\ res = <<>>

\* products = screenProducts(products)
Screen ==
  /\ Len(res) = 0
  /\ res' = <<screenProducts(arg)>>
  /\ UNCHANGED <<pipeVars, arg>>

\* the screening step applied to an already screened list
ScreenAgain ==
  /\ Len(res) = 1
  /\ res' = Append(res, screenProducts(res[1]))
  /\ UNCHANGED <<pipeVars, arg>>

NextScreen == Screen \/ ScreenAgain

SpecScreen == InitScreen /\ [][NextScreen]_vars

(***************************************************************************)
(* FetchProductsInParts: the page requests of one fetch.                   *)
(***************************************************************************)

\* const MAX_RESULT_SIZE = 50
MAX_RESULT_SIZE == 50

\* largest sParams.Size of the runs explored
MaxTotal == 120

\* FetchProducts(sParams): the source numbers the results of a search from 1
\* and answers a request with those at offsets From .. From+Size-1 that it has
FetchProducts(total, sParams) ==
  LET last == IF sParams.From + sParams.Size < total
              THEN sParams.From + sParams.Size ELSE total
  IN [i \in 1..(IF last > sParams.From THEN last - sParams.From ELSE 0)
        |-> sParams.From + i]

\* sParams := NewSearchParams(.., 0, set.Count); entry of FetchProductsInParts:
\* size := sParams.Size; sParams.Size = MAX_RESULT_SIZE; from := 0
InitPages ==
  /\ InitPipe(AnyStoreRun(0, {}, AnyAnswer))
  /\ arg \in { [sParams |-> [From |-> 0, Size |-> n], total |-> t] :
                 n \in 0..MaxTotal, t \in {0, MaxTotal + MAX_RESULT_SIZE} }
  /\ res = [pc |-> "loop", size |-> arg.sParams.Size, from |-> 0,
            sParams |-> [From |-> 0, Size |-> MAX_RESULT_SIZE],
            requests |-> <<>>, pages |-> <<>>, allResults |-> <<>>]

\* a loop body that never shortens the last page
PageRequestFullPages ==
  /\ res.pc = "loop"
  /\ res.from < res.size
  /\ LET sp == [From |-> res.from, Size |-> res.sParams.Size]
         page == FetchProducts(arg.total, sp)
     IN res' = [res EXCEPT !.sParams = sp,
                           !.requests = Append(@, sp),
                           !.pages = Append(@, page),
                           !.allResults = @ \o page,
                           !.from = @ + MAX_RESULT_SIZE]
  /\ UNCHANGED <<pipeVars, arg>>

\* one iteration of: for from := 0; from < size; from += MAX_RESULT_SIZE
PageRequest ==
  /\ res.pc = "loop"
  /\ res.from < res.size
  /\ LET sp == [From |-> res.from,
                Size |-> IF res.from + MAX_RESULT_SIZE > res.size
                         THEN res.size - res.from ELSE res.sParams.Size]
         page == FetchProducts(arg.total, sp)
     IN res' = [res EXCEPT !.sParams = sp,
                           !.requests = Append(@, sp),
                           !.pages = Append(@, page),
                           !.allResults = @ \o page,
                           !.from = @ + MAX_RESULT_SIZE]
  /\ UNCHANGED <<pipeVars, arg>>

\* loop exit: extractProductAttributes(allResults); return allResults
PagesReturn ==
  /\ res.pc = "loop"
  /\ ~(res.from < res.size)
  /\ res' = [res EXCEPT !.pc = "done"]
  /\ UNCHANGED <<pipeVars, arg>>

NextPages == PageRequest \/ PagesReturn

SpecPages == InitPages /\ [][NextPages]_vars

(***************************************************************************)
(* The two helpers of the repair, applied to arguments of their own        *)
(***************************************************************************)
DetailTokens == {"(", ")", ",", "007", "Key "}

RepairKeys == {"", "007", "001", "999"}

RepairInputs ==
  { [fn |-> "getDuplicateKey", detail |-> d, products |-> <<>>, number |-> ""] :
      d \in UNION {[1..n -> DetailTokens] : n \in 0..MaxLen} }
  \cup
  { [fn |-> "removeProductByProductNumber", detail |-> <<>>, products |-> l, number |-> k] :
      l \in UNION {[1..n -> ProductPool] : n \in 0..MaxLen}, k \in RepairKeys }

InitRepair ==
  /\ InitPipe(AnyStoreRun(0, {}, AnyAnswer))
  /\ arg \in RepairInputs
  /\ res = <<>>

\* duplicateKey := getDuplicateKey(pgErr.Detail)
ExtractKey ==
  /\ arg.fn = "getDuplicateKey" /\ res = <<>>
  /\ res' = <<getDuplicateKey(arg.detail)>>
  /\ UNCHANGED <<pipeVars, arg>>

\* removeProductByProductNumber(status.job.productList, duplicateKey)
RemoveProduct ==
  /\ arg.fn = "removeProductByProductNumber" /\ res = <<>>
  /\ res' = << IF removeProductByProductNumberPanics(arg.products)
               THEN [panic |-> TRUE, products |-> <<>>]
               ELSE [panic |-> FALSE,
                     products |-> removeProductByProductNumber(arg.products, arg.number)] >>
  /\ UNCHANGED <<pipeVars, arg>>

NextRepair == ExtractKey \/ RemoveProduct

SpecRepair == InitRepair /\ [][NextRepair]_vars

(***************************************************************************)
(* Properties                                                              *)
(***************************************************************************)
Range(f) == {f[x] : x \in DOMAIN f}

AllExited(workers) == \A w \in DOMAIN workers : workers[w].pc = "done"

\* C1: no send ever occurs on a closed channel (such a send panics): no
\* worker sends on the job, outcome or image-request channel after main()
\* closed it.
C1_NoSendOnClosedChannel == halt # PanicSendClosed

AllSeeded == next > cfg.nSets

Drained ==
  /\ pc = "exit"
  /\ wg = [data |-> 0, job |-> 0, status |-> 0, image |-> 0]
  /\ AllExited(dw) /\ AllExited(jw) /\ AllExited(sw) /\ AllExited(iw)

\* C2: once the seeding loop has sent one request per set, main() eventually
\* passes all four waits with every worker exited and every wait-group
\* counter at zero. A run that log.Fatal ended on a source fetch failure is
\* left out: that halt is the documented one.
C2_DrainsToCompletion == AllSeeded ~> (Drained \/ halt = FatalFetch)

\* C3: before main() reaches os.Exit(0) and while the process has not been
\* ended by a panic, some goroutine can always take a step.
C3_NoDeadlock == Running => ENABLED Next

Matches(list, key) == {i \in 1..Len(list) : list[i].ProductNumber = key}

\* C4: when the key of a repair is the business key of exactly one product
\* of the job (N >= 1 products), the re-submitted job has N-1 products: the
\* original list without that product, the others unchanged and in order.
C4_RepairRemovesExactlyOne ==
  (lastRepair.done /\ Cardinality(Matches(lastRepair.before, lastRepair.key)) = 1)
    => /\ Len(lastRepair.after) = Len(lastRepair.before) - 1
       /\ lastRepair.after =
            SelectSeq(lastRepair.before, LAMBDA p : p.ProductNumber # lastRepair.key)

\* C5: a job that left the Data Stage with N products is re-submitted at
\* most N times, every re-submission is shorter than the job that produced
\* the conflict, and no key causes two re-submissions of the same job.
C5_RepairTerminates ==
  \A s \in DOMAIN repairLog :
    LET log == repairLog[s]
    IN  /\ Len(log) > 0 => Len(log) <= log[1].before
        /\ \A i \in 1..Len(log) : log[i].after < log[i].before
        /\ \A i, j \in 1..Len(log) : i # j => log[i].key # log[j].key

\* every FetchJob in the job channel, held by a worker, or inside a JobOutcome
JobsInFlight ==
  Range(jobsChan)
    \cup {dw[w].job : w \in {v \in DataWorkers : dw[v].pc = "send"}}
    \cup {jw[w].status.job : w \in {v \in JobWorkers : jw[v].pc = "send"}}
    \cup {st.job : st \in Range(jobStatChan)}
    \cup {sw[w].status.job : w \in {v \in StatusWorkers : sw[v].pc \in {"sendImg", "sendJob"}}}

\* C6: every FetchJob, re-submitted ones included, holds only products with a
\* non-empty business key, and no two products of a job share a key.
C6_JobKeysNonEmptyUnique ==
  \A job \in JobsInFlight :
    /\ \A i \in 1..Len(job.productList) : job.productList[i].ProductNumber # ""
    /\ \A i, j \in 1..Len(job.productList) :
         i # j => job.productList[i].ProductNumber # job.productList[j].ProductNumber

CloseOrder == <<"dc", "jobs", "stat", "img">>

\* C7: main() closes the channels in the order request, job, outcome,
\* image-request; the job channel only after every data worker exited, the
\* outcome channel only after every job worker exited, the image-request
\* channel only after every status worker exited; and it reaches its exit
\* only after every image worker exited.
C7_ShutdownOrder ==
  /\ Len(closeLog) <= 4 /\ closeLog = SubSeq(CloseOrder, 1, Len(closeLog))
  /\ closed.jobs => AllExited(dw)
  /\ closed.stat => AllExited(jw)
  /\ closed.img => AllExited(sw)
  /\ pc = "exit" => AllExited(iw)

\* main() at os.Exit(0) after all four closes
C7_Witness == pc = "exit" /\ closeLog = CloseOrder /\ sent.jobs > 0

\* C8: when main() reaches its exit all four channels are empty and every
\* message sent was received: each request by a data worker, each job
\* (re-submitted ones included) by a job worker that produced one outcome for
\* it, each outcome by a status worker, each product list by an image worker.
C8_NothingLostAtExit ==
  pc = "exit" =>
    /\ dataCtxChan = <<>> /\ jobsChan = <<>> /\ jobStatChan = <<>> /\ imgInfoChan = <<>>
    /\ recv = sent
    /\ sent.stat = recv.jobs
    /\ \A w \in JobWorkers : jw[w].pc # "send"
    /\ \A w \in StatusWorkers : sw[w].pc \notin {"sendImg", "sendJob"}

\* main() at its exit in a run with a re-submitted job and a forwarded list
C8_Witness == pc = "exit" /\ lastRepair.done /\ sent.img > 0 /\ sent.jobs > cfg.nSets - 1

\* the products screening is documented to keep: those with a number whose
\* number no earlier product of the list carries, in input order
FirstOccurrences(list) ==
  LET idx == {i \in 1..Len(list) :
                /\ list[i].ProductNumber # ""
                /\ \A j \in 1..(i - 1) : list[j].ProductNumber # list[i].ProductNumber}
      n == Cardinality(idx)
  IN  [k \in 1..n |-> list[CHOOSE i \in idx : Cardinality({j \in idx : j <= i}) = k]]

\* C9: screenProducts returns exactly the products that have a non-empty
\* business key and are the first in the input with that key, in input
\* order; the 10 products of Scenario A yield 8.
C9_ScreenKeepsFirstOccurrences ==
  Len(res) >= 1 =>
    /\ res[1] = FirstOccurrences(arg)
    /\ arg = ScenarioA => Len(res[1]) = 8

\* Scenario A has been screened
C9_Witness == Len(res) >= 1 /\ arg = ScenarioA /\ Len(res[1]) = 8

\* C10: screening is idempotent: screening a screened list returns it
\* unchanged.
C10_ScreenIdempotent == Len(res) = 2 => res[2] = res[1]

\* a list that lost products in the first screening has been screened twice
C10_Witness == Len(res) = 2 /\ res[1] # <<>> /\ Len(res[1]) < Len(arg)

\* C11: every job a data worker is about to send has a set whose Count is the
\* length of the job's screened product list, and every product of the list
\* carries the job's set id as SetId and its product line id as ProductLineId
C11_JobCountAndStamps ==
  \A w \in DataWorkers :
    dw[w].pc = "send" =>
      LET job == dw[w].job
      IN  /\ job.set.Count = Len(job.productList)
          /\ \A i \in 1..Len(job.productList) :
                /\ job.productList[i].SetId = job.set.Id
                /\ job.productList[i].ProductLineId = job.productLine

\* a data worker holds a job of two products for a set whose id differs from
\* the product line's and whose Count was MaxLen when the request was sent
C11_Witness ==
  \E w \in DataWorkers :
    /\ dw[w].pc = "send"
    /\ Len(dw[w].job.productList) = 2
    /\ dw[w].job.set.Id # dw[w].job.productLine
    /\ dw[w].job.set.Count # MaxLen

Holding(workers, at) == Cardinality({w \in DOMAIN workers : workers[w].pc = at})

\* C12: the jobs data workers have sent or are about to send are as many as
\* the requests whose fetch returned at least one product, every request
\* received was fetched, and a data worker that returned left the request
\* channel closed and empty
C12_OneJobPerNonEmptyRequest ==
  /\ hist.dataSent + Holding(dw, "send") = hist.fetchedSome
  /\ hist.fetchedSome + hist.fetchedNone + (IF halt = FatalFetch THEN 1 ELSE 0) = recv.dc
  /\ \A w \in DataWorkers :
       dw[w].pc = "done" => closed.dc /\ dataCtxChan = <<>>

\* all data workers returned after one request was skipped for an empty
\* answer and one job was sent for the other
C12_Witness ==
  /\ AllExited(dw)
  /\ hist.fetchedNone = 1
  /\ hist.fetchedSome = 1
  /\ hist.dataSent = 1

Resubmitted ==
  Cardinality({<<s, i>> \in (DOMAIN repairLog) \X (1..MaxResubmits) : i <= Len(repairLog[s])})

\* C13: a job worker calls AddSetData once per job received and the outcomes
\* sent or about to be sent are as many as the jobs received; the outcome
\* carries the job received, the worker's id and the error AddSetData
\* returned, with success exactly when that error is nil; the job channel
\* gets jobs from data workers and status workers only
C13_OneOutcomePerJob ==
  /\ sent.stat + Holding(jw, "send") = recv.jobs
  /\ hist.addSetData = recv.jobs
  /\ sent.jobs = hist.dataSent + Resubmitted
  /\ \A w \in JobWorkers :
       jw[w].pc = "send" =>
         /\ jw[w].status.job = jw[w].job
         /\ jw[w].status.worker = w
         /\ jw[w].status.err = jw[w].err
         /\ jw[w].status.success <=> (jw[w].err = NoErr)

\* a job worker holds the outcome of a failed write after an earlier outcome
\* was sent
C13_Witness ==
  \E w \in JobWorkers :
    /\ jw[w].pc = "send"
    /\ jw[w].err # NoErr
    /\ sent.stat >= 1

\* a status worker takes the outcome at the head of the outcome channel
StatusTaken == jobStatChan # <<>> /\ jobStatChan' = Tail(jobStatChan)

\* C14: a status worker that takes an outcome goes on to send the job's whole
\* product list on the image-request channel when the outcome is a success,
\* to send the repaired job on the job channel when it is a unique violation,
\* and to receive again without a send when it is any other failure; each of
\* the two sends puts one message on its channel and none on the other
C14_OutcomeHandledOnce ==
  [][/\ StatusTaken =>
          LET st == Head(jobStatChan)
          IN  /\ jobsChan' = jobsChan
              /\ imgInfoChan' = imgInfoChan
              /\ \E w \in StatusWorkers :
                   /\ sw[w].pc = "recv"
                   /\ \A v \in StatusWorkers \ {w} : sw'[v] = sw[v]
                   /\ IF st.success
                      THEN /\ sw'[w].pc = "sendImg"
                           /\ sw'[w].status.job.productList = st.job.productList
                      ELSE IF IsUniqueViolation(st.err)
                           THEN /\ sw'[w].pc = "sendJob"
                                /\ sw'[w].status.job.set = st.job.set
                           ELSE sw'[w] = sw[w]
     /\ \A w \in StatusWorkers :
          (sw[w].pc = "sendImg" /\ sw'[w] # sw[w]) =>
             /\ imgInfoChan' = Append(imgInfoChan, sw[w].status.job.productList)
             /\ jobsChan' = jobsChan
             /\ sw'[w].pc = "recv"
     /\ \A w \in StatusWorkers :
          (sw[w].pc = "sendJob" /\ sw'[w] # sw[w]) =>
             /\ jobsChan' = Append(jobsChan, sw[w].status.job)
             /\ imgInfoChan' = imgInfoChan
             /\ sw'[w].pc = "recv"]_vars

\* C15: a status worker that takes a unique violation whose detail is
\* Key (product_number, rarity_name, set_id)=(007, Common, 3) already exists
\* goes on to re-submit the job with "007" as the key, the product numbered
\* "007" removed and one product less in the list
C15_KeyIsProductNumber ==
  [][(StatusTaken /\ Head(jobStatChan).err = PgError(UniqueViolationError, KeyDetail)) =>
       LET list == Head(jobStatChan).job.productList
       IN  \E w \in StatusWorkers :
             /\ sw[w].pc = "recv"
             /\ sw'[w].pc = "sendJob"
             /\ sw'[w].repair.key = "007"
             /\ Matches(list, "007") # {} =>
                  /\ Len(sw'[w].status.job.productList) = Len(list) - 1
                  /\ Matches(sw'[w].status.job.productList, "007") = {}]_vars

\* C16: no job is re-submitted, or about to be, after a key extraction that
\* gave the empty string
C16_NoKeyDropsJob ==
  /\ \A w \in StatusWorkers : sw[w].pc = "sendJob" => sw[w].repair.key # ""
  /\ \A s \in DOMAIN repairLog :
       \A i \in 1..Len(repairLog[s]) : repairLog[s][i].key # ""

\* C17: a status worker that takes a failure other than a unique violation
\* sends nothing, re-submits nothing and is ready to receive the next outcome
C17_FailureDoesNotStopWorker ==
  [][(/\ StatusTaken
      /\ ~Head(jobStatChan).success
      /\ ~IsUniqueViolation(Head(jobStatChan).err)) =>
       /\ halt' = halt
       /\ sw' = sw
       /\ jobsChan' = jobsChan
       /\ imgInfoChan' = imgInfoChan]_vars

\* C18: every request sent is either still in the request channel or was
\* received exactly once and fetched, closing the channel leaves its buffered
\* requests in place, and once a data worker has returned the channel is
\* empty and every request of the seeding loop was received
C18_NoRequestLostAtClose ==
  /\ recv.dc + Len(dataCtxChan) = sent.dc
  /\ hist.fetchedSome + hist.fetchedNone + (IF halt = FatalFetch THEN 1 ELSE 0) = recv.dc
  /\ \A w \in DataWorkers :
       dw[w].pc = "done" =>
         /\ dataCtxChan = <<>>
         /\ sent.dc = cfg.nSets
         /\ recv.dc = cfg.nSets

\* the request channel is closed with every request of the run still
\* buffered, and no data worker has returned
C18_Witness ==
  /\ closed.dc
  /\ cfg.nSets > 1
  /\ Len(dataCtxChan) = cfg.nSets
  /\ \A w \in DataWorkers : dw[w].pc = "recv"

Started == pc \notin {"addProductLine", "addSets"}

\* C19: once main() is past AddSets, its product line and every set carry
\* the identifier of a row of the store, and every product of a job handed to
\* AddSetData carries a SetId and a ProductLineId that are identifiers of rows
\* of the store
C19_IdsResolvedBeforePipeline ==
  /\ Started =>
       /\ productLine.Id \in ProductLineIds(store)
       /\ \A i \in 1..Len(sets) : sets[i].Id \in SetIds(store)
  /\ \A w \in JobWorkers :
       jw[w].pc = "send" =>
         \A i \in 1..Len(jw[w].job.productList) :
           /\ jw[w].job.productList[i].SetId \in SetIds(store)
           /\ jw[w].job.productList[i].ProductLineId \in ProductLineIds(store)

\* the set row main() inserted for the job's set is in the store
OwnSetRowInserted(job) ==
  [Id |-> job.set.Id, Name |-> job.set.Name, ProductLineId |-> job.set.ProductLineId]
    \in store.sets

\* no product of the job has the primary key of a row of products
CollidesWithNothing(job) ==
  \A i \in 1..Len(job.productList) :
    \A r \in store.products :
      ~(r.ProductNumber = job.productList[i].ProductNumber
        /\ r.SetId = job.productList[i].SetId)

\* C20: the first AddSetData of a job whose set row main() inserted and whose
\* products collide with no row succeeds, unless the connection or the
\* transaction itself failed; in particular it is no unique violation on the
\* set's own row
C20_NoConflictOnOwnSetRow ==
  \A w \in JobWorkers :
    (/\ jw[w].pc = "send"
     /\ OwnSetRowInserted(jw[w].job)
     /\ Len(repairLog[jw[w].job.set.Name]) = 0
     /\ CollidesWithNothing(jw[w].job)
     /\ jw[w].err # OtherErr
     /\ jw[w].err.Code # SerializationFailure) =>
       /\ jw[w].err = NoErr
       /\ ~IsUniqueViolation(jw[w].err)

\* a job worker takes a job and calls AddSetData
JobTaken == hist'.addSetData = hist.addSetData + 1

Rows(st) == [productLines |-> st.productLines, sets |-> st.sets, products |-> st.products]

\* C21: an AddSetData call that returns nil has added one row for the job's
\* set and a row for every product of the job, and nothing else; a call that
\* returns an error has left every table as it was
C21_WriteAllOrNothing ==
  [][JobTaken =>
       LET job == Head(jobsChan)
       IN  \E w \in JobWorkers :
             /\ jw[w].pc = "recv" /\ jw'[w].pc = "send"
             /\ IF jw'[w].err = NoErr
                THEN /\ store'.productLines = store.productLines
                     /\ store.sets \subseteq store'.sets
                     /\ Cardinality(store'.sets \ store.sets) = 1
                     /\ \A r \in store'.sets \ store.sets :
                          r.Name = job.set.Name /\ r.ProductLineId = job.set.ProductLineId
                     /\ store'.products = store.products \cup
                          {ProductRow(job.productList[i]) : i \in 1..Len(job.productList)}
                ELSE Rows(store') = Rows(store)]_vars

\* a write failed on a product after the set row had been inserted in the
\* same transaction: the set's name is still not in the sets table
C21_Witness ==
  \E w \in JobWorkers :
    /\ cfg.pg
    /\ jw[w].pc = "send"
    /\ jw[w].err.Code = ForeignKeyViolation
    /\ Len(jw[w].job.productList) > 0
    /\ jw[w].job.set.ProductLineId \in ProductLineIds(store)
    /\ \A r \in store.sets : r.Name # jw[w].job.set.Name

\* C22: no step removes a row from product_lines, sets or products, and the
\* steps of a status worker leave the store as it is
C22_StoreOnlyGrows ==
  [][/\ store.productLines \subseteq store'.productLines
     /\ store.sets \subseteq store'.sets
     /\ store.products \subseteq store'.products
     /\ sw' # sw => store' = store]_vars

\* a job was repaired and re-submitted in a run that started on an empty
\* store and has added rows to it
C22_Witness ==
  /\ cfg.pg
  /\ cfg.store = EmptyStore
  /\ store.sets # {}
  /\ lastRepair.done

Panics == {PanicSendClosed, PanicIndex, PanicMakeLen}

\* C25: once the seeding loop has completed the process is never ended by a
\* panic of a worker
C25_ItemFailuresContained == AllSeeded => halt \notin Panics

\* C26: the step of a data worker that meets a fetch failure ends the process
\* without a job built, held or sent for the request, and no step follows it
C26_FetchFailureIsFatal ==
  [][/\ halt = FatalFetch => vars' = vars
     /\ (halt # FatalFetch /\ halt' = FatalFetch) =>
          /\ dataCtxChan' = Tail(dataCtxChan)
          /\ dw' = dw
          /\ jobsChan' = jobsChan
          /\ sent' = sent
          /\ hist' = hist]_vars

\* the fetch for the second request failed after a job was sent for the first
C26_Witness ==
  /\ halt = FatalFetch
  /\ recv.dc = 2
  /\ hist.dataSent = 1
  /\ \A w \in DataWorkers : dw[w].pc = "recv"

\* C30: the job of a success a status worker reports has a set whose Count is
\* the length of the product list that was written
C30_SuccessCountIsListLength ==
  \A w \in StatusWorkers :
    sw[w].pc = "sendImg" =>
      sw[w].status.job.set.Count = Len(sw[w].status.job.productList)

RECURSIVE SumSizes(_)
SumSizes(reqs) == IF reqs = <<>> THEN 0 ELSE Head(reqs).Size + SumSizes(Tail(reqs))

Min(a, b) == IF a < b THEN a ELSE b

\* C29: for a requested Size S >= 0 FetchProductsInParts asks one page for
\* every offset 0, 50, 100, ... below S and no other, each page asks for
\* min(50, S - From) results (never more than 50), the page sizes add up to
\* S (so no request at all when S = 0), and the value returned is the
\* concatenation of the pages in offset order.
C29_PagesCoverSize ==
  LET S == arg.sParams.Size
      reqs == res.requests
  IN /\ \A i \in 1..Len(reqs) :
          /\ reqs[i].From = (i - 1) * MAX_RESULT_SIZE
          /\ reqs[i].From < S
          /\ reqs[i].Size = Min(MAX_RESULT_SIZE, S - reqs[i].From)
          /\ reqs[i].Size <= MAX_RESULT_SIZE
     /\ res.allResults = Flatten(res.pages)
     /\ res.pc = "done" =>
          /\ Len(reqs) * MAX_RESULT_SIZE >= S
          /\ SumSizes(reqs) = S
          /\ S = 0 => reqs = <<>>
          /\ arg.total >= S => res.allResults = [i \in 1..S |-> i]

\* a fetch of three pages whose last page is a short one
C29_Witness ==
  /\ res.pc = "done"
  /\ Len(res.requests) = 3
  /\ res.requests[3].Size < MAX_RESULT_SIZE
  /\ Len(res.allResults) = arg.sParams.Size

\* C27: AddSetData is called for a set only after a data worker fetched,
\* screened and sent its job (a job waiting for its first attempt is a
\* screened list with its count), an outcome is received by a status worker
\* only after the AddSetData call it reports, a job is re-submitted only
\* after its outcome was received, and between two receipts of outcomes of
\* one job lies exactly one re-submission and one AddSetData call.
C27_CausalOrder ==
  /\ \A s \in DOMAIN hist.bySet :
       LET h == hist.bySet[s]
           k == Len(repairLog[s])
       IN  /\ h.sent <= 1
           /\ h.attempts <= h.sent + k
           /\ h.inspected <= h.attempts
           /\ k <= h.inspected
           /\ h.attempts > 0 => h.sent = 1
  /\ \A i \in 1..Len(jobsChan) :
       Len(repairLog[jobsChan[i].set.Name]) = 0 =>
         /\ removeDuplicateProducts(removeProductWithoutNumber(jobsChan[i].productList))
              = jobsChan[i].productList
         /\ jobsChan[i].set.Count = Len(jobsChan[i].productList)

\* the outcome of the second attempt on a repaired job has been received
C27_Witness ==
  \E s \in DOMAIN hist.bySet :
    /\ Len(repairLog[s]) = 1
    /\ hist.bySet[s].attempts = 2
    /\ hist.bySet[s].inspected = 2

\* the places that hold the job of set s or its outcome
Holders(s) ==
  Cardinality({w \in DataWorkers : dw[w].job.set.Name = s})
  + Cardinality({i \in 1..Len(jobsChan) : jobsChan[i].set.Name = s})
  + Cardinality({w \in JobWorkers : jw[w].job.set.Name = s})
  + Cardinality({i \in 1..Len(jobStatChan) : jobStatChan[i].job.set.Name = s})
  + Cardinality({w \in StatusWorkers : sw[w].status.job.set.Name = s})

\* C28: the job of a set and its outcome are, together, in at most one
\* place: one worker or one channel slot; a worker that has sent a job or
\* an outcome holds none until it receives the next.
C28_ExclusiveOwnership ==
  /\ \A s \in DOMAIN hist.bySet : Holders(s) <= 1
  /\ \A w \in DataWorkers : dw[w].pc # "send" => dw[w].job = NoJob
  /\ \A w \in JobWorkers : jw[w].pc # "send" => jw[w].job = NoJob /\ jw[w].status = NoStatus
  /\ \A w \in StatusWorkers : sw[w].pc \notin {"sendImg", "sendJob"} => sw[w].status = NoStatus

\* a repaired job waits in the job channel, its sender holding nothing
C28_Witness ==
  \E i \in 1..Len(jobsChan) :
    /\ Len(repairLog[jobsChan[i].set.Name]) = 1
    /\ Holders(jobsChan[i].set.Name) = 1
    /\ \A w \in StatusWorkers : sw[w].pc = "recv"

ImageTaken == recv'.img = recv.img + 1

\* the file a product of prodList is written to, given the rows found
FileOf(prodList, products, i) ==
  FileName(getProductIdByName(products, prodList[i].ProductName))

\* C23: when an image worker handles a list, every file it writes is the
\* file {dir}{storeId}_in_{suffix} of a persisted row that has the name of a
\* product of the list and holds the image fetched by that product's source
\* id (so nothing is written for a product without a row), and every
\* product with a row whose image is fetched and whose file can be written
\* has that file written with its image.
C23_ImagesByStoreId ==
  [][ImageTaken /\ Len(Head(imgInfoChan)) > 0 =>
       LET prodList == Head(imgInfoChan)
           r == GetProductsBySetName(cfg, store, prodList, prodList[1].SetName)
           rows == r.products
           hasRow(i) == \E j \in 1..Len(rows) : rows[j].ProductName = prodList[i].ProductName
       IN  /\ \A f \in DOMAIN files' :
                (f \notin DOMAIN files \/ files'[f] # files[f]) =>
                  \E i \in 1..Len(prodList), j \in 1..Len(rows) :
                    /\ rows[j].ProductName = prodList[i].ProductName
                    /\ f = FileName(rows[j].ProductId)
                    /\ files'[f] = ImageOf(prodList[i].ProductId)
           /\ r.err = NoErr =>
                \A i \in 1..Len(prodList) :
                  ( /\ hasRow(i)
                    /\ prodList[i].ProductId \notin cfg.images.badImages
                    /\ FileOf(prodList, rows, i) \notin cfg.images.badFiles ) =>
                      /\ FileOf(prodList, rows, i) \in DOMAIN files'
                      /\ files'[FileOf(prodList, rows, i)] = ImageOf(prodList[i].ProductId)
  ]_vars

\* C24: an image worker that handled a non-empty list is still running and
\* receiving; unless the lookup of the rows failed, every product of the
\* list whose own image was fetched and whose own file could be written has
\* its file written with an image fetched for that file, whatever happened
\* to the other products; no file is removed; and an image worker has
\* returned only when the image channel was closed and empty.
C24_ImageFailureIsLocal ==
  /\ [](\A w \in ImageWorkers : iw[w].pc = "done" => closed.img /\ imgInfoChan = <<>>)
  /\ [][ImageTaken /\ Len(Head(imgInfoChan)) > 0 =>
          LET prodList == Head(imgInfoChan)
              r == GetProductsBySetName(cfg, store, prodList, prodList[1].SetName)
              ok(i) == /\ prodList[i].ProductId \notin cfg.images.badImages
                       /\ FileOf(prodList, r.products, i) \notin cfg.images.badFiles
          IN  /\ iw' = iw
              /\ halt' = halt
              /\ \A f \in DOMAIN files : f \in DOMAIN files'
              /\ r.err = NoErr =>
                   \A i \in 1..Len(prodList) :
                     ok(i) =>
                       /\ FileOf(prodList, r.products, i) \in DOMAIN files'
                       /\ files'[FileOf(prodList, r.products, i)] \in
                            { ImageOf(prodList[j].ProductId) :
                                j \in {k \in 1..Len(prodList) :
                                         /\ ok(k)
                                         /\ FileOf(prodList, r.products, k)
                                              = FileOf(prodList, r.products, i)} }
     ]_vars

\* the image of the first product could not be fetched and the image of the
\* second is on disk under its store id
C24_Witness ==
  /\ cfg.images.lookup = "all"
  /\ cfg.images.badImages = {1}
  /\ FileName(StoreId(2, 2)) \in DOMAIN files
  /\ files[FileName(StoreId(2, 2))] = ImageOf(2)
  /\ FileName(StoreId(1, 1)) \notin DOMAIN files
  /\ \A w \in ImageWorkers : iw[w].pc = "recv"

\* the pool size main() computes
PoolOf == cfg.gomaxprocs \div 3

Live(workers) == Cardinality({w \in DOMAIN workers : workers[w].pc # "done"})
Adding(stage) == IF pc = "go" /\ LaunchStage = stage THEN 1 ELSE 0
Launched == pc \notin {"launch", "go"}

\* C32: once LaunchWorkerPool has returned there are p job workers, p data
\* workers, p status workers and p+2 image workers, p the pool size; each
\* stage's wait-group counter is never negative and always the number of
\* that stage's workers that have not exited, plus one between the Add and
\* the go statement of a worker being started; so after the launch a counter
\* is zero only when every worker of its stage has exited.
C32_WaitGroupsCountWorkers ==
  /\ Launched =>
       /\ Cardinality(JobWorkers) = PoolOf
       /\ Cardinality(DataWorkers) = PoolOf
       /\ Cardinality(StatusWorkers) = PoolOf
       /\ Cardinality(ImageWorkers) = PoolOf + 2
  /\ \A stage \in DOMAIN wg : wg[stage] >= 0
  /\ wg.job = Live(jw) + Adding("job")
  /\ wg.data = Live(dw) + Adding("data")
  /\ wg.status = Live(sw) + Adding("status")
  /\ wg.image = Live(iw) + Adding("image")

\* a pool of at least one worker per stage was launched, has run and every
\* worker has exited, all four counters back at zero
C32_Witness ==
  /\ pc = "exit"
  /\ PoolOf >= 1
  /\ wg = [data |-> 0, job |-> 0, status |-> 0, image |-> 0]
  /\ Live(iw) = 0 /\ Cardinality(ImageWorkers) = PoolOf + 2

\* C33: whatever GOMAXPROCS is, when there is at least one set the seeding
\* loop eventually has sent a request for every set.
C33_SeedingCompletes == cfg.nSets > 0 => <>AllSeeded

\* C34: getDuplicateKey returns for every detail, with no index out of range
\* on the match result, and returns "" for a detail without a parenthesised
\* group.
C34_GetDuplicateKeyTotal ==
  (arg.fn = "getDuplicateKey" /\ res # <<>>) =>
     /\ ~res[1].panic
     /\ FindStringSubmatch(arg.detail) = <<>> => res[1].number = ""

\* C35: removeProductByProductNumber returns for every list and key, the
\* empty list included; every product of the result is a product of the
\* input; the result is as long as the input less the products carrying the
\* key; and without a product carrying the key the result is the input.
C35_RemoveReturnsSubList ==
  (arg.fn = "removeProductByProductNumber" /\ res # <<>>) =>
     /\ ~res[1].panic
     /\ \A i \in 1..Len(res[1].products) :
          \E j \in 1..Len(arg.products) : res[1].products[i] = arg.products[j]
     /\ Len(res[1].products) = Len(arg.products) - Cardinality(Matches(arg.products, arg.number))
     /\ Matches(arg.products, arg.number) = {} => res[1].products = arg.products

\* C36: every product list waiting for an image worker has a product, and so
\* has every job whose outcome a status worker will log as unhandled (a
\* PgError other than a unique violation).
C36_FirstElementExists ==
  /\ \A i \in 1..Len(imgInfoChan) : Len(imgInfoChan[i]) > 0
  /\ \A i \in 1..Len(jobStatChan) :
       ( /\ ~jobStatChan[i].success
         /\ jobStatChan[i].err.kind = "pg"
         /\ jobStatChan[i].err.Code # UniqueViolationError )
         => Len(jobStatChan[i].job.productList) > 0

\* C37: when an image worker handles a list whose rows it could look up, no
\* two products of the list with different source ids whose images were both
\* fetched are given the same file name.
C37_FileNamesInjective ==
  [][ImageTaken /\ Len(Head(imgInfoChan)) > 0 =>
       LET prodList == Head(imgInfoChan)
           r == GetProductsBySetName(cfg, store, prodList, prodList[1].SetName)
           fetched == {i \in 1..Len(prodList) :
                         prodList[i].ProductId \notin cfg.images.badImages}
       IN  r.err = NoErr =>
             \A i, j \in fetched :
               prodList[i].ProductId # prodList[j].ProductId =>
                 FileOf(prodList, r.products, i) # FileOf(prodList, r.products, j)
  ]_vars

\* the jobs in the job channel, with a job worker, in the outcome channel or
\* with a status worker
LiveJobs ==
  Len(jobsChan) + Len(jobStatChan)
  + Cardinality({w \in JobWorkers : jw[w].job # NoJob})
  + Cardinality({w \in StatusWorkers : sw[w].status # NoStatus})

RECURSIVE SumOver(_, _)
SumOver(f, S) ==
  IF S = {} THEN 0
  ELSE LET x == CHOOSE y \in S : TRUE IN f[x] + SumOver(f, S \ {x})

\* the jobs that reached their end: forwarded to the image stage
Forwarded == SumOver([s \in DOMAIN hist.bySet |-> hist.bySet[s].forwarded], DOMAIN hist.bySet)

\* C38: the live jobs, together with the jobs data workers still hold and
\* the jobs already forwarded, are never more than the requests data workers
\* have received; a set never has two live jobs, so a re-submitted job takes
\* the place of the failed one; and for each set AddSetData succeeds at most
\* once and its product list is sent to the image workers at most once, and
\* only after that success.
C38_JobConservation ==
  /\ LiveJobs <= recv.dc
  /\ LiveJobs + Holding(dw, "send") + Forwarded <= recv.dc
  /\ \A s \in DOMAIN hist.bySet :
       /\ Holders(s) <= 1
       /\ hist.bySet[s].succeeded <= 1
       /\ hist.bySet[s].forwarded <= hist.bySet[s].succeeded
       /\ hist.bySet[s].forwarded = 1 => Holders(s) = 0

\* every request was received, one job was repaired and then succeeded and
\* the product lists of both sets have gone to the image workers
C38_Witness ==
  /\ recv.dc = cfg.nSets
  /\ Forwarded = cfg.nSets
  /\ LiveJobs = 0
  /\ \E s \in DOMAIN repairLog : Len(repairLog[s]) >= 1 /\ hist.bySet[s].forwarded = 1

====
